---- MODULE Spec2Model ----
(***************************************************************************)
(* Process-graph construction of the openEO Python client: the node id     *)
(* allocator (GraphBuilder.id_counter), the graph builder and the band     *)
(* math expression compiler, as exercised by tests/rest/datacube and       *)
(* tests/internal/processes.                                               *)
(*                                                                         *)
(* Strings that are taken apart or put together (process ids, node ids)    *)
(* are sequences of one-character strings.                                 *)
(***************************************************************************)
EXTENDS Integers, Sequences, FiniteSets, TLC

VARIABLES
    id_counter,   \* GraphBuilder.id_counter: process id -> last used number (0: no entry)
    issued,       \* ids handed out since the last reset: records [p, k, id]
    sess,         \* per connection: its own allocation counts and the ids it received
    op,           \* the operation that produced the current state
    api_version,  \* the api_version fixture parameter: "0.4.0" or "1.0.0"
    cubes,        \* the cubes and band expressions built so far
    graph_read,   \* what the last flat_graph() / .graph returned
    private       \* the file of a PrivateJsonFile: umask, existence, mode, content

vars == <<id_counter, issued, sess, op, api_version, cubes, graph_read, private>>

(***************************************************************************)
(* Bounds                                                                  *)
(***************************************************************************)
MaxCount == 11     \* allocations per process id in the allocator specification
MaxSessAllocs == 2 \* allocations per process id and connection in SpecSessions
MaxCubes == 4      \* cubes and band expressions alive in the builder specification
MaxReads == 2      \* consecutive reads of one graph

(***************************************************************************)
(* Process ids                                                             *)
(***************************************************************************)
foo == <<"f", "o", "o">>
foo1 == <<"f", "o", "o", "1">>
add == <<"a", "d", "d">>
array_element == <<"a", "r", "r", "a", "y", "_", "e", "l", "e", "m", "e", "n", "t">>
arrayelement == <<"a", "r", "r", "a", "y", "e", "l", "e", "m", "e", "n", "t">>

load_collection == <<"l", "o", "a", "d", "_", "c", "o", "l", "l", "e", "c", "t", "i", "o", "n">>
reduce_dimension == <<"r", "e", "d", "u", "c", "e", "_", "d", "i", "m", "e", "n", "s", "i", "o", "n">>
filter_bands == <<"f", "i", "l", "t", "e", "r", "_", "b", "a", "n", "d", "s">>
merge_cubes == <<"m", "e", "r", "g", "e", "_", "c", "u", "b", "e", "s">>
subtract == <<"s", "u", "b", "t", "r", "a", "c", "t">>
multiply == <<"m", "u", "l", "t", "i", "p", "l", "y">>
divide == <<"d", "i", "v", "i", "d", "e">>

BuilderPids == {load_collection, reduce_dimension, array_element, filter_bands,
                merge_cubes, add, subtract, multiply, divide}
AllocPids == {foo, foo1, array_element, arrayelement}
SessPids == {add, array_element}
AllPids == AllocPids \cup SessPids \cup BuilderPids

Sessions == {"A", "B"}

(***************************************************************************)
(* Node Identity Allocator                                                 *)
(***************************************************************************)
Digit(d) ==
    CASE d = 0 -> "0" [] d = 1 -> "1" [] d = 2 -> "2" [] d = 3 -> "3"
      [] d = 4 -> "4" [] d = 5 -> "5" [] d = 6 -> "6" [] d = 7 -> "7"
      [] d = 8 -> "8" [] d = 9 -> "9"

Digits == {"0", "1", "2", "3", "4", "5", "6", "7", "8", "9"}

RECURSIVE str(_)
\* decimal rendering of a natural number
str(n) == IF n < 10 THEN <<Digit(n)>> ELSE str(n \div 10) \o <<Digit(n % 10)>>

IsNotUnderscore(c) == c # "_"

node_name_with_underscores(process_id) == process_id

\* the process id as it appears in a node id: underscores dropped
\* ("array_element" -> "arrayelement1", "load_collection" -> "loadcollection1")
node_name(process_id) == SelectSeq(process_id, IsNotUnderscore)

\* the id for the counter-th node of process_id
next_id(process_id, counter) == node_name(process_id) \o str(counter)

EmptyCounter == [p \in AllPids |-> 0]

reset_keeps_counters(counters) == counters

\* reset_graphbuilder(): GraphBuilder.id_counter = {}
reset_graphbuilder(counters) == EmptyCounter

NoSess == [s \in Sessions |-> [count |-> EmptyCounter, ids |-> {}]]

\* no file at the path of the store; umask 022
NoFile == [umask |-> 18, exists |-> FALSE, mode |-> 0, data |-> <<>>]

(***************************************************************************)
(* Allocator specification: one stream of allocations and resets           *)
(***************************************************************************)
InitAlloc ==
    /\ private = NoFile
    /\ api_version = "0.4.0"
    /\ cubes = {}
    /\ graph_read = <<>>
    /\ id_counter = EmptyCounter
    /\ issued = {}
    /\ sess = NoSess
    /\ op = [name |-> "init"]

\* one node allocation for process id p
Allocate(p) ==
    /\ id_counter[p] < MaxCount
    /\ LET k == id_counter[p] + 1
           id == next_id(p, k)
       IN  /\ id_counter' = [id_counter EXCEPT ![p] = k]
           /\ issued' = issued \cup {[p |-> p, k |-> k, id |-> id]}
           /\ op' = [name |-> "next_id", p |-> p, id |-> id]
    /\ UNCHANGED <<private, sess, api_version, cubes, graph_read>>

Reset ==
    /\ id_counter' = reset_graphbuilder(id_counter)
    /\ issued' = {}
    /\ op' = [name |-> "reset"]
    /\ UNCHANGED <<private, sess, api_version, cubes, graph_read>>

NextAlloc ==
    \/ \E p \in AllocPids : Allocate(p)
    \/ Reset

SpecAlloc == InitAlloc /\ [][NextAlloc]_vars


EndsInDigit(name) == Len(name) > 0 /\ name[Len(name)] \in Digits

\* process ids whose node ids cannot be confused: the same process id, or
\* two different underscore-free names of which neither ends in a digit
Separable(p, q) ==
    \/ p = q
    \/ /\ node_name(p) # node_name(q)
       /\ ~EndsInDigit(node_name(p))
       /\ ~EndsInDigit(node_name(q))

\* C1 as stated: the k-th allocation for process id p returns p followed by
\* k, and no two ids returned since the last reset are equal.
C1_Original ==
    /\ \A r \in issued : r.id = r.p \o str(r.k)
    /\ \A r1, r2 \in issued : r1 # r2 => r1.id # r2.id

\* C1 (amended): the k-th allocation for process id p, k counting from 1
\* separately per process id, returns p without its underscores followed by
\* the decimal k; two ids returned for the same process id differ, and so do
\* ids of two process ids whose underscore-free names differ and do not end
\* in a digit.
C1_IdFormat ==
    /\ \A r \in issued :
          /\ r.k \in 1..id_counter[r.p]
          /\ r.id = SelectSeq(r.p, IsNotUnderscore) \o str(r.k)
    /\ \A p \in AllocPids : \A k \in 1..id_counter[p] :
          \E r \in issued : r.p = p /\ r.k = k
    /\ \A r1, r2 \in issued :
          (r1 # r2 /\ Separable(r1.p, r2.p)) => r1.id # r2.id

\* a mix of allocations: the second array_element node after a foo node
C1_Witness ==
    /\ \E r \in issued : r.p = array_element /\ r.k = 2
    /\ \E r \in issued : r.p = foo /\ r.k = 1
    /\ op.name = "next_id"

(***************************************************************************)
(* Two connections allocating from GraphBuilder.id_counter                 *)
(***************************************************************************)
InitSessions ==
    /\ private = NoFile
    /\ api_version = "0.4.0"
    /\ cubes = {}
    /\ graph_read = <<>>
    /\ id_counter = EmptyCounter
    /\ issued = {}
    /\ sess = NoSess
    /\ op = [name |-> "init"]

\* the connection fixture: reset_graphbuilder(), then a new connection
connection(s) ==
    /\ id_counter' = reset_graphbuilder(id_counter)
    /\ sess' = [sess EXCEPT ![s] = [count |-> EmptyCounter, ids |-> {}]]
    /\ op' = [name |-> "connection", s |-> s]
    /\ UNCHANGED <<private, issued, api_version, cubes, graph_read>>

\* connection s builds one node of process id p
SessionAllocate(s, p) ==
    /\ sess[s].count[p] < MaxSessAllocs
    /\ LET k == id_counter[p] + 1
           own == sess[s].count[p] + 1
           id == next_id(p, k)
       IN  /\ id_counter' = [id_counter EXCEPT ![p] = k]
           /\ sess' = [sess EXCEPT ![s] =
                  [count |-> [@.count EXCEPT ![p] = own],
                   ids |-> @.ids \cup {[p |-> p, k |-> own, id |-> id]}]]
           /\ op' = [name |-> "next_id", s |-> s, p |-> p, id |-> id]
    /\ UNCHANGED <<private, issued, api_version, cubes, graph_read>>

NextSessions ==
    \/ \E s \in Sessions : connection(s)
    \/ \E s \in Sessions, p \in SessPids : SessionAllocate(s, p)

SpecSessions == InitSessions /\ [][NextSessions]_vars

\* C10: the ids a connection receives are those it would receive if the
\* other connection made no allocations: its k-th node of process id p gets
\* the k-th id of p.
C10_SessionsIsolated ==
    \A s \in Sessions : \A r \in sess[s].ids : r.id = next_id(r.p, r.k)


(***************************************************************************)
(* Graph nodes                                                             *)
(*                                                                         *)
(* A node under construction keeps its arguments in insertion order as     *)
(* <<name, value>> pairs. A value is a literal ([num |-> 3], [str |-> s],  *)
(* [null |-> TRUE]), another node ([pgnode |-> node]), a parameter         *)
(* ([from_argument |-> name]) or a callback ([callback |-> node]).         *)
(* In a flat graph a node argument is {"from_node": id} and a callback is  *)
(* {"process_graph": flat graph}.                                          *)
(***************************************************************************)
Collections == {"S2", "SENTINEL2_RADIOMETRY_10M"}
BandIndexes == {1, 2}
Scalars == {3, 5}
Operators == {add, subtract, multiply, divide}
BandNames == {"B02", "B04"}
Versions == {"0.4.0", "1.0.0"}

NoId == <<>>
NoGraph == <<>>

PGNode(process_id, arguments, id) ==
    [process_id |-> process_id, arguments |-> arguments, id |-> id]

\* the id of a node built now: the 0.4.0 builder numbers a node when it is
\* built, the 1.0.0 graph is numbered when it is flattened
new_id(version, counters, process_id) ==
    IF version = "0.4.0" THEN next_id(process_id, counters[process_id] + 1) ELSE NoId

used(version, counters, process_ids) ==
    IF version = "0.4.0"
    THEN [p \in DOMAIN counters |-> IF p \in process_ids THEN counters[p] + 1 ELSE counters[p]]
    ELSE counters

argument(node, name) ==
    LET i == CHOOSE j \in DOMAIN node.arguments : node.arguments[j][1] = name
    IN  node.arguments[i][2]

with_argument(node, name, value) ==
    [node EXCEPT !.arguments =
        [j \in DOMAIN node.arguments |->
            IF node.arguments[j][1] = name THEN <<name, value>> ELSE node.arguments[j]]]

arguments_mapping(pairs) ==
    [n \in {pairs[j][1] : j \in DOMAIN pairs} |->
        pairs[CHOOSE j \in DOMAIN pairs : pairs[j][1] = n][2]]

with_result_on_all(flat, tip) ==
    [id \in DOMAIN flat |-> flat[id] @@ ("result" :> TRUE)]

\* the flat graph with the result flag on its tip
with_result(flat, tip) ==
    [id \in DOMAIN flat |-> IF id = tip THEN flat[id] @@ ("result" :> TRUE) ELSE flat[id]]

FlatNode(process_id, arguments) == [process_id |-> process_id, arguments |-> arguments]

(***************************************************************************)
(* flat_graph() of the 1.0.0 graph: the nodes are visited arguments first  *)
(* and numbered as they are visited, a node once per reference to it.      *)
(* flatten gives the nodes in the order of the visit, an argument that is  *)
(* a node being the position ([at |-> i]) of that node in the sequence.    *)
(***************************************************************************)
RECURSIVE flatten(_)
RECURSIVE flatten_arguments(_, _)
RECURSIVE flat_graph_100(_)

shifted_value(value, n) == IF "at" \in DOMAIN value THEN [at |-> value.at + n] ELSE value

\* the visited nodes seq, placed after n nodes visited before them
shifted(seq, n) ==
    [i \in DOMAIN seq |->
        [process_id |-> seq[i].process_id,
         arguments |-> [a \in DOMAIN seq[i].arguments |->
                          <<seq[i].arguments[a][1], shifted_value(seq[i].arguments[a][2], n)>>]]]

\* the first j arguments visited: the nodes met and the flat arguments
flatten_arguments(pairs, j) ==
    IF j = 0 THEN [nodes |-> <<>>, out |-> <<>>]
    ELSE LET r == flatten_arguments(pairs, j - 1)
             name == pairs[j][1]
             value == pairs[j][2]
         IN  IF "pgnode" \in DOMAIN value
             THEN LET sub == flatten(value.pgnode)
                  IN  [nodes |-> r.nodes \o shifted(sub, Len(r.nodes)),
                       out |-> Append(r.out, <<name, [at |-> Len(r.nodes) + Len(sub)]>>)]
             ELSE IF "callback" \in DOMAIN value
             THEN [nodes |-> r.nodes,
                   out |-> Append(r.out,
                              <<name, [process_graph |-> flat_graph_100(value.callback)]>>)]
             ELSE [nodes |-> r.nodes, out |-> Append(r.out, <<name, value>>)]

flatten(node) ==
    LET r == flatten_arguments(node.arguments, Len(node.arguments))
    IN  Append(r.nodes, [process_id |-> node.process_id, arguments |-> r.out])

\* the id of the i-th visited node: its process id and how many nodes of
\* that process id were visited up to it
id_at(seq, i) ==
    next_id(seq[i].process_id,
            Cardinality({j \in 1..i : seq[j].process_id = seq[i].process_id}))

flat_value_100(seq, value) ==
    IF "at" \in DOMAIN value THEN [from_node |-> id_at(seq, value.at)] ELSE value

flat_graph_100(root) ==
    LET seq == flatten(root)
        flat == [id \in {id_at(seq, i) : i \in DOMAIN seq} |->
                    LET i == CHOOSE k \in DOMAIN seq : id_at(seq, k) = id
                        pairs == seq[i].arguments
                    IN  FlatNode(seq[i].process_id,
                            arguments_mapping(
                                [a \in DOMAIN pairs |->
                                    <<pairs[a][1], flat_value_100(seq, pairs[a][2])>>]))]
    IN  with_result(flat, id_at(seq, Len(seq)))

(***************************************************************************)
(* flat_graph() of the 0.4.0 builder: the nodes under the ids they got     *)
(* when they were built                                                    *)
(***************************************************************************)
RECURSIVE entries(_)
RECURSIVE flat_graph_040(_)

flat_value_040(value) ==
    IF "pgnode" \in DOMAIN value THEN [from_node |-> value.pgnode.id]
    ELSE IF "callback" \in DOMAIN value THEN [process_graph |-> flat_graph_040(value.callback)]
    ELSE value

entries_without_parents(node) ==
    LET pairs == node.arguments
        mapping == [n \in {pairs[j][1] : j \in DOMAIN pairs} |->
                       flat_value_040(pairs[CHOOSE j \in DOMAIN pairs : pairs[j][1] = n][2])]
    IN  {<<node.id, FlatNode(node.process_id, mapping)>>}

\* the <<id, node>> entries of the graph that ends in node
entries(node) ==
    LET pairs == node.arguments
        mapping == [n \in {pairs[j][1] : j \in DOMAIN pairs} |->
                       flat_value_040(pairs[CHOOSE j \in DOMAIN pairs : pairs[j][1] = n][2])]
        parents == {pairs[j][2].pgnode :
                       j \in {i \in DOMAIN pairs : "pgnode" \in DOMAIN pairs[i][2]}}
    IN  {<<node.id, FlatNode(node.process_id, mapping)>>}
            \cup UNION {entries(parent) : parent \in parents}

flat_graph_040(root) ==
    LET es == entries(root)
        flat == [id \in {e[1] : e \in es} |-> (CHOOSE e \in es : e[1] = id)[2]]
    IN  with_result(flat, root.id)

flat_graph(version, root) ==
    IF version = "0.4.0" THEN flat_graph_040(root) ELSE flat_graph_100(root)

\* an id bound to two different nodes, in the graph or in one of its callbacks
RECURSIVE collision(_)
collision(node) ==
    LET es == entries(node)
        pairs == node.arguments
        nested == {pairs[j][2].callback :
                      j \in {i \in DOMAIN pairs : "callback" \in DOMAIN pairs[i][2]}}
    IN  \/ \E e1, e2 \in es : e1[1] = e2[1] /\ e1[2] # e2[2]
        \/ \E parent \in {pairs[j][2].pgnode :
                       j \in {i \in DOMAIN pairs : "pgnode" \in DOMAIN pairs[i][2]}} :
               collision(parent)
        \/ \E cb \in nested : collision(cb)


(***************************************************************************)
(* Cubes and band expressions                                              *)
(*                                                                         *)
(* A cube is the node its graph ends in (root), its source collection and  *)
(* whether it is a band expression: a reduce_dimension node whose reducer  *)
(* callback holds the band math. Two fields record how it was made:        *)
(* sources (the load_collection nodes it derives from) and chain (the      *)
(* number of scalar operators applied to one band, -1 otherwise).          *)
(***************************************************************************)
Cube(root, collection, is_band, sources, chain) ==
    [root |-> root, collection |-> collection, is_band |-> is_band,
     sources |-> sources, chain |-> chain]

NoCube == Cube(PGNode(NoId, <<>>, NoId), "", FALSE, {}, -1)

Call(name, left, right, o, s, reverse) ==
    [name |-> name, left |-> left, right |-> right, o |-> o, s |-> s, reverse |-> reverse]

Done(call, raised, result, n) ==
    [name |-> call.name, left |-> call.left, right |-> call.right, o |-> call.o,
     s |-> call.s, reverse |-> call.reverse,
     raised |-> raised, result |-> result, n |-> n]

callback_of(cube) == argument(cube.root, "reducer").callback

Init ==
    /\ private = NoFile
    /\ api_version \in Versions
    /\ id_counter = EmptyCounter
    /\ cubes = {}
    /\ graph_read = NoGraph
    /\ issued = {}
    /\ sess = NoSess
    /\ op = Done(Call("connection", NoCube, NoCube, NoId, 0, FALSE), "none", NoCube, 0)

\* the graphs that end in the operand nodes bind an id to two different nodes
operands_collide(operands) ==
    \E a, b \in operands : \E e1 \in entries(a), e2 \in entries(b) :
        e1[1] = e2[1] /\ e1[2] # e2[2]

\* the operands' graphs are united, the new node is numbered and added, and
\* the new cube joins the live ones; an id bound to two nodes is an error
finish(call, cube, process_ids, operands) ==
    /\ IF api_version = "0.4.0" /\ operands_collide(operands)
       THEN /\ id_counter' = id_counter
            /\ cubes' = cubes
            /\ op' = Done(call, "GraphConstructionError", NoCube, 0)
       ELSE /\ id_counter' = used(api_version, id_counter, process_ids)
            /\ IF api_version = "0.4.0" /\ collision(cube.root)
               THEN /\ cubes' = cubes
                    /\ op' = Done(call, "GraphConstructionError", NoCube, 0)
               ELSE /\ cubes' = cubes \cup {cube}
                    /\ op' = Done(call, "none", cube, 0)
    /\ graph_read' = NoGraph
    /\ UNCHANGED <<private, api_version, issued, sess>>

\* connection.load_collection(c)
LoadCollection(c) ==
    /\ Cardinality(cubes) < MaxCubes
    /\ LET node == PGNode(load_collection,
                      << <<"id", [str |-> c]>>,
                         <<"spatial_extent", [null |-> TRUE]>>,
                         <<"temporal_extent", [null |-> TRUE]>> >>,
                      new_id(api_version, id_counter, load_collection))
       IN  finish(Call("load_collection", NoCube, NoCube, NoId, 0, FALSE),
                  Cube(node, c, FALSE, {node}, -1),
                  {load_collection}, {})

\* cube.filter_bands([b])
FilterBands(cube, b) ==
    /\ Cardinality(cubes) < MaxCubes
    /\ LET node == PGNode(filter_bands,
                      << <<"data", [pgnode |-> cube.root]>>, <<"bands", [str |-> b]>> >>,
                      new_id(api_version, id_counter, filter_bands))
       IN  finish(Call("filter_bands", cube, NoCube, NoId, 0, FALSE),
                  Cube(node, cube.collection, FALSE, cube.sources, -1),
                  {filter_bands}, {cube.root})

\* cube.band(i): array_element inside a reduce_dimension over the bands
Band(cube, i) ==
    /\ Cardinality(cubes) < MaxCubes
    /\ ~cube.is_band
    /\ LET element == PGNode(array_element,
                         << <<"data", [from_argument |-> "data"]>>, <<"index", [num |-> i]>> >>,
                         new_id(api_version, id_counter, array_element))
           node == PGNode(reduce_dimension,
                      << <<"data", [pgnode |-> cube.root]>>,
                         <<"reducer", [callback |-> element]>>,
                         <<"dimension", [str |-> "spectral_bands"]>> >>,
                      new_id(api_version, id_counter, reduce_dimension))
       IN  finish(Call("band", cube, NoCube, NoId, i, FALSE),
                  Cube(node, cube.collection, TRUE, cube.sources, 0),
                  {array_element, reduce_dimension}, {cube.root})

\* b = connection.load_collection(c).band(i): the cube itself is not kept
LoadBand(c, i) ==
    /\ Cardinality(cubes) < MaxCubes
    /\ LET loaded == PGNode(load_collection,
                        << <<"id", [str |-> c]>>,
                           <<"spatial_extent", [null |-> TRUE]>>,
                           <<"temporal_extent", [null |-> TRUE]>> >>,
                        new_id(api_version, id_counter, load_collection))
           element == PGNode(array_element,
                         << <<"data", [from_argument |-> "data"]>>, <<"index", [num |-> i]>> >>,
                         new_id(api_version, id_counter, array_element))
           node == PGNode(reduce_dimension,
                      << <<"data", [pgnode |-> loaded]>>,
                         <<"reducer", [callback |-> element]>>,
                         <<"dimension", [str |-> "spectral_bands"]>> >>,
                      new_id(api_version, id_counter, reduce_dimension))
       IN  finish(Call("band", Cube(loaded, c, FALSE, {loaded}, -1), NoCube, NoId, i, FALSE),
                  Cube(node, c, TRUE, {loaded}, 0),
                  {load_collection, array_element, reduce_dimension}, {})

binary_arguments_self_first(self, other, reverse) ==
    << <<"x", self>>, <<"y", other>> >>

operator_node_extended(o, self, other, reverse, id) ==
    IF "pgnode" \in DOMAIN self /\ self.pgnode.process_id = o
    THEN PGNode(o, Append(self.pgnode.arguments, <<"z", other>>), id)
    ELSE PGNode(o,
             IF reverse THEN << <<"x", other>>, <<"y", self>> >>
                        ELSE << <<"x", self>>, <<"y", other>> >>,
             id)

\* the arguments of a binary operator node: x is the left operand, y the
\* right one; reverse says that self is the right operand (3 + b)
binary_arguments(self, other, reverse) ==
    IF reverse THEN << <<"x", other>>, <<"y", self>> >> ELSE << <<"x", self>>, <<"y", other>> >>

\* every application of an operator builds one new node of two arguments
operator_node(o, self, other, reverse, id) ==
    PGNode(o, binary_arguments(self, other, reverse), id)

\* b + s, b - s, b * s, b / s and the reflected s + b, s - b, s * b, s / b
BandOpScalar(cube, o, s, reverse) ==
    /\ Cardinality(cubes) < MaxCubes
    /\ cube.is_band
    /\ LET node == operator_node(o, [pgnode |-> callback_of(cube)], [num |-> s], reverse,
                                  new_id(api_version, id_counter, o))
           root == with_argument(cube.root, "reducer", [callback |-> node])
       IN  finish(Call("band_op_scalar", cube, NoCube, o, s, reverse),
                  Cube(root, cube.collection, TRUE, cube.sources,
                       IF cube.chain >= 0 THEN cube.chain + 1 ELSE -1),
                  {o}, {callback_of(cube)})

\* whether band math on bands of two collections is rejected: the 1.0.0
\* cube raises BandMathException, "0.4.0 generates invalid result"
band_math_rejects(version) == version # "0.4.0"

\* b1 + b2, b1 - b2, b1 * b2, b1 / b2 on two band expressions
BandOpBand(left, right, o) ==
    /\ Cardinality(cubes) < MaxCubes
    /\ left.is_band /\ right.is_band
    /\ LET call == Call("band_op_band", left, right, o, 0, FALSE)
           node == operator_node(o, [pgnode |-> callback_of(left)],
                                 [pgnode |-> callback_of(right)], FALSE,
                                 new_id(api_version, id_counter, o))
           root == with_argument(left.root, "reducer", [callback |-> node])
       IN  IF left.collection # right.collection /\ band_math_rejects(api_version)
           THEN /\ op' = Done(call, "BandMathException", NoCube, 0)
                /\ graph_read' = NoGraph
                /\ UNCHANGED <<private, id_counter, cubes, api_version, issued, sess>>
           ELSE finish(call, Cube(root, left.collection, TRUE, left.sources, -1), {o},
                       {callback_of(left), callback_of(right)})

\* a.merge(b)
Merge(left, right) ==
    /\ Cardinality(cubes) < MaxCubes
    /\ LET node == PGNode(merge_cubes,
                      << <<"cube1", [pgnode |-> left.root]>>,
                         <<"cube2", [pgnode |-> right.root]>> >>,
                      new_id(api_version, id_counter, merge_cubes))
       IN  finish(Call("merge", left, right, NoId, 0, FALSE),
                  Cube(node, left.collection, FALSE, left.sources \cup right.sources, -1),
                  {merge_cubes}, {left.root, right.root})

graph_allocating(version, counters, root) ==
    [graph |-> flat_graph(version, root),
     counters |-> [counters EXCEPT ![root.process_id] = @ + 1]]

\* cube.graph: the flat graph, and the counters as they are left
graph(version, counters, root) ==
    [graph |-> flat_graph(version, root), counters |-> counters]

\* reading cube.graph of the expression just built, or reading it again
FlatGraph(cube) ==
    /\ cube = op.result
    /\ LET again == op.name = "flat_graph" /\ op.left = cube
           n == IF again THEN op.n + 1 ELSE 1
           r == graph(api_version, id_counter, cube.root)
       IN  /\ n <= MaxReads
           /\ graph_read' = r.graph
           /\ id_counter' = r.counters
           /\ op' = Done(Call("flat_graph", cube, NoCube, NoId, 0, FALSE), "none", cube, n)
    /\ UNCHANGED <<private, cubes, api_version, issued, sess>>

\* reset_graphbuilder() between two graphs
ResetGraphBuilder ==
    /\ id_counter' = reset_graphbuilder(id_counter)
    /\ op' = Done(Call("reset_graphbuilder", NoCube, NoCube, NoId, 0, FALSE), "none", NoCube, 0)
    /\ graph_read' = NoGraph
    /\ UNCHANGED <<private, cubes, api_version, issued, sess>>

\* flat_graph() of a builder that owns no node and has no result node
FlatGraphEmpty ==
    /\ op' = Done(Call("flat_graph", NoCube, NoCube, NoId, 0, FALSE),
                  "GraphConstructionError", NoCube, 0)
    /\ graph_read' = NoGraph
    /\ UNCHANGED <<private, id_counter, cubes, api_version, issued, sess>>

(***************************************************************************)
(* Callback Parameter Binder: a declared parameter is <<kind, name>>, kind *)
(* "named" for a positional-or-keyword parameter, "args" for *args and     *)
(* "kwargs" for **kwargs                                                   *)
(***************************************************************************)
IsNamed(parameter) == parameter[1] = "named"

name_of(parameters) == [i \in DOMAIN parameters |-> parameters[i][2]]

\* def add_stuff(foo, bar, *args, **kwargs)
add_stuff ==
    << <<"named", "foo">>, <<"named", "bar">>, <<"args", "args">>, <<"kwargs", "kwargs">> >>

Callables ==
    {add_stuff,
     << <<"named", "data">> >>,
     << <<"args", "args">> >>,
     << <<"args", "args">>, <<"kwargs", "kwargs">> >>,
     << >>}

\* the names of the positional-or-keyword parameters, in declaration order
get_parameter_names(parameters) == name_of(SelectSeq(parameters, IsNamed))

\* whether the callable has a parameter that the callback's data can be bound to
convert_accepts(parameters) == get_parameter_names(parameters) # <<>>

\* convert_callable_to_pgnode(callable): the callable is called with one
\* placeholder per parameter name; without a usable name it is rejected
ConvertCallable(parameters) ==
    /\ LET names == get_parameter_names(parameters)
           call == Call("convert_callable", NoCube, NoCube, parameters, Len(names), FALSE)
       IN  op' = IF convert_accepts(parameters)
                 THEN Done(call, "none", NoCube, 0)
                 ELSE Done(call, "ConfigurationError", NoCube, 0)
    /\ graph_read' = NoGraph
    /\ UNCHANGED <<private, id_counter, cubes, api_version, issued, sess>>

(***************************************************************************)
(* Band math on one collection                                             *)
(***************************************************************************)
Next ==
    \/ \E c \in {"S2"} : LoadCollection(c)
    \/ \E cube \in cubes, i \in BandIndexes : Band(cube, i)
    \/ \E cube \in cubes, o \in Operators, s \in Scalars, reverse \in BOOLEAN :
           BandOpScalar(cube, o, s, reverse)
    \/ \E left, right \in cubes, o \in Operators : BandOpBand(left, right, o)
    \/ \E cube \in cubes : FlatGraph(cube)

Spec == Init /\ [][Next]_vars

(***************************************************************************)
(* Graphs built and read around reset_graphbuilder()                       *)
(***************************************************************************)
NextReset ==
    \/ \E c \in {"S2"} : LoadCollection(c)
    \/ \E cube \in cubes, b \in BandNames : FilterBands(cube, b)
    \/ \E cube \in cubes, i \in BandIndexes : Band(cube, i)
    \/ \E cube \in cubes, s \in Scalars, reverse \in BOOLEAN :
           BandOpScalar(cube, add, s, reverse)
    \/ \E cube \in cubes : FlatGraph(cube)
    \/ ResetGraphBuilder

SpecReset == Init /\ [][NextReset]_vars

(***************************************************************************)
(* Band math on bands of two collections                                   *)
(***************************************************************************)
NextCollections ==
    \/ \E c \in Collections, i \in BandIndexes : LoadBand(c, i)
    \/ \E left, right \in cubes, o \in Operators : BandOpBand(left, right, o)
    \/ \E cube \in cubes : FlatGraph(cube)

SpecCollections == Init /\ [][NextCollections]_vars

(***************************************************************************)
(* Cubes merged with cubes                                                 *)
(***************************************************************************)
NextMerge ==
    \/ \E c \in Collections : LoadCollection(c)
    \/ \E cube \in cubes, b \in BandNames : FilterBands(cube, b)
    \/ \E left, right \in cubes : Merge(left, right)
    \/ \E cube \in cubes : FlatGraph(cube)

SpecMerge == Init /\ [][NextMerge]_vars

(***************************************************************************)
(* Operations that raise: reading an empty builder, merging graphs whose   *)
(* ids collide after a reset, band math on two collections, a callable     *)
(* without parameter names                                                 *)
(***************************************************************************)
NextErrors ==
    \/ \E c \in Collections : LoadBand(c, 2)
    \/ \E left, right \in cubes : BandOpBand(left, right, add)
    \/ \E left, right \in cubes : Merge(left, right)
    \/ \E cube \in cubes : FlatGraph(cube)
    \/ FlatGraphEmpty
    \/ \E parameters \in Callables : ConvertCallable(parameters)
    \/ ResetGraphBuilder

SpecErrors == Init /\ [][NextErrors]_vars


(***************************************************************************)
(* Properties of flat graphs                                               *)
(***************************************************************************)
result_ids(flat) == {id \in DOMAIN flat : "result" \in DOMAIN flat[id]}

tip_of(flat) == CHOOSE id \in DOMAIN flat : "result" \in DOMAIN flat[id]

arguments_with(flat, id, key) ==
    {a \in DOMAIN flat[id].arguments : key \in DOMAIN flat[id].arguments[a]}

\* the ids that the nodes of flat refer to
references(flat) ==
    UNION {{flat[id].arguments[a].from_node : a \in arguments_with(flat, id, "from_node")} :
              id \in DOMAIN flat}

\* the flat graphs nested in the arguments of the nodes of flat
callbacks_in(flat) ==
    UNION {{flat[id].arguments[a].process_graph :
               a \in arguments_with(flat, id, "process_graph")} : id \in DOMAIN flat}

\* the callback of a band expression, as its flat graph shows it
callback_graph(cube) ==
    LET flat == flat_graph(api_version, cube.root)
    IN  flat[tip_of(flat)].arguments["reducer"].process_graph

\* the node under id in flat is the node that was built, and so are the
\* nodes it refers to
RECURSIVE renders(_, _, _)
renders(flat, id, node) ==
    /\ id \in DOMAIN flat
    /\ flat[id].process_id = node.process_id
    /\ \A j \in DOMAIN node.arguments :
          LET name == node.arguments[j][1]
              value == node.arguments[j][2]
          IN  /\ name \in DOMAIN flat[id].arguments
              /\ IF "pgnode" \in DOMAIN value
                 THEN /\ "from_node" \in DOMAIN flat[id].arguments[name]
                      /\ renders(flat, flat[id].arguments[name].from_node, value.pgnode)
                 ELSE flat[id].arguments[name] = value

\* exactly one node of flat carries result = true, it is the node that was
\* built last (tip) and no node refers to it
one_result(flat, tip) ==
    \E r \in DOMAIN flat :
        /\ result_ids(flat) = {r}
        /\ flat[r].result = TRUE
        /\ flat[r].process_id = tip.process_id
        /\ r \notin references(flat)
        /\ api_version = "0.4.0" => r = tip.id

\* C2: a flat graph returned by flat_graph() has exactly one node with
\* result = true, the builder's tip; the same holds for the flat graph
\* nested in a reducer argument; the other nodes carry no result flag.
C2_OneResult ==
    op.name = "flat_graph" =>
        /\ one_result(graph_read, op.left.root)
        /\ \A g \in callbacks_in(graph_read) : Cardinality(result_ids(g)) = 1
        /\ op.left.is_band =>
              one_result(graph_read[tip_of(graph_read)].arguments["reducer"].process_graph,
                         callback_of(op.left))

\* a graph was read whose callback and whose outer graph both have a node
\* that is not the tip
C2_Witness ==
    /\ op.name = "flat_graph"
    /\ Cardinality(DOMAIN graph_read) >= 2
    /\ \E g \in callbacks_in(graph_read) : Cardinality(DOMAIN g) >= 3

is_reference_to(flat, value, node) ==
    /\ "from_node" \in DOMAIN value
    /\ renders(flat, value.from_node, node)

\* C3: the node of a binary operator has x = the band, y = the scalar for
\* b op s, x = the scalar, y = the band for s op b, and x = the left band,
\* y = the right band when both operands are band expressions.
C3_ArgumentOrder ==
    /\ (op.name = "band_op_scalar" /\ op.raised = "none") =>
          LET g == callback_graph(op.result)
              t == g[tip_of(g)]
              self == callback_of(op.left)
          IN  /\ t.process_id = op.o
              /\ DOMAIN t.arguments = {"x", "y"}
              /\ IF op.reverse
                 THEN /\ t.arguments["x"] = [num |-> op.s]
                      /\ is_reference_to(g, t.arguments["y"], self)
                 ELSE /\ is_reference_to(g, t.arguments["x"], self)
                      /\ t.arguments["y"] = [num |-> op.s]
    /\ (op.name = "band_op_band" /\ op.raised = "none") =>
          LET g == callback_graph(op.result)
              t == g[tip_of(g)]
          IN  /\ t.process_id = op.o
              /\ DOMAIN t.arguments = {"x", "y"}
              /\ is_reference_to(g, t.arguments["x"], callback_of(op.left))
              /\ is_reference_to(g, t.arguments["y"], callback_of(op.right))

\* a scalar was put on the left of a band in a subtraction, 3 - b, with the
\* difference of two bands built before
C3_Witness ==
    /\ op.name = "band_op_scalar"
    /\ op.raised = "none"
    /\ op.reverse
    /\ op.o = subtract
    /\ \E cube \in cubes :
          /\ cube.is_band
          /\ callback_of(cube).process_id = subtract
          /\ cube.chain = -1

(***************************************************************************)
(* test_band_operation: b = s2.band("B04"), c = 3 + b + 5, and the graph   *)
(* that the test expects of c.graph on the 1.0.0 connection                *)
(***************************************************************************)
loadcollection1 == <<"l", "o", "a", "d", "c", "o", "l", "l", "e", "c", "t", "i", "o", "n", "1">>
reducedimension1 == <<"r", "e", "d", "u", "c", "e", "d", "i", "m", "e", "n", "s", "i", "o", "n", "1">>
arrayelement1 == <<"a", "r", "r", "a", "y", "e", "l", "e", "m", "e", "n", "t", "1">>
add1 == <<"a", "d", "d", "1">>
add2 == <<"a", "d", "d", "2">>

test_band_operation_process ==
    PGNode(add,
        << <<"x", [pgnode |->
                     PGNode(add,
                         << <<"x", [num |-> 3]>>,
                            <<"y", [pgnode |->
                                      PGNode(array_element,
                                          << <<"data", [from_argument |-> "data"]>>,
                                             <<"index", [num |-> 2]>> >>,
                                          NoId)]>> >>,
                         NoId)]>>,
           <<"y", [num |-> 5]>> >>,
        NoId)

test_band_operation_callback ==
    (arrayelement1 :> [process_id |-> array_element,
                       arguments |-> [data |-> [from_argument |-> "data"],
                                      index |-> [num |-> 2]]])
    @@ (add1 :> [process_id |-> add,
                 arguments |-> [x |-> [num |-> 3], y |-> [from_node |-> arrayelement1]]])
    @@ (add2 :> [process_id |-> add,
                 arguments |-> [x |-> [from_node |-> add1], y |-> [num |-> 5]],
                 result |-> TRUE])

test_band_operation_expected ==
    (loadcollection1 :> [process_id |-> load_collection,
                         arguments |-> [id |-> [str |-> "S2"],
                                        spatial_extent |-> [null |-> TRUE],
                                        temporal_extent |-> [null |-> TRUE]]])
    @@ (reducedimension1 :> [process_id |-> reduce_dimension,
                             arguments |-> [data |-> [from_node |-> loadcollection1],
                                            reducer |-> [process_graph |->
                                                           test_band_operation_callback],
                                            dimension |-> [str |-> "spectral_bands"]],
                             result |-> TRUE])

\* c.graph == expected, for c = 3 + b + 5
test_band_operation ==
    (/\ api_version = "1.0.0"
     /\ op.name = "flat_graph"
     /\ op.left.is_band
     /\ callback_of(op.left) = test_band_operation_process)
        => graph_read = test_band_operation_expected

operator_ids(flat) == {id \in DOMAIN flat : flat[id].process_id \in Operators}

RECURSIVE chain_length(_, _, _)
\* the number of operator nodes met from id on, each taken from the one
\* from_node argument of the node before
chain_length(flat, id, fuel) ==
    IF fuel = 0 \/ id \notin operator_ids(flat) \/ arguments_with(flat, id, "from_node") = {}
    THEN 0
    ELSE LET a == CHOOSE b \in arguments_with(flat, id, "from_node") : TRUE
         IN  1 + chain_length(flat, flat[id].arguments[a].from_node, fuel - 1)

\* C4: n operators applied one after the other to one band give n operator
\* nodes of two arguments each, every one but the first taking the one
\* before it as a from_node argument, and only the last one is the result;
\* the graph of 3 + b + 5 is the graph that test_band_operation expects.
C4_OneNodePerOperator ==
    /\ test_band_operation
    /\ \A cube \in cubes : cube.chain >= 0 =>
          LET g == callback_graph(cube)
          IN  /\ Cardinality(operator_ids(g)) = cube.chain
              /\ Cardinality(DOMAIN g) = cube.chain + 1
              /\ \A id \in operator_ids(g) :
                    /\ DOMAIN g[id].arguments = {"x", "y"}
                    /\ Cardinality(arguments_with(g, id, "from_node")) = 1
                    /\ Cardinality(arguments_with(g, id, "num")) = 1
              /\ result_ids(g) = {tip_of(g)}
              /\ chain_length(g, tip_of(g), Cardinality(DOMAIN g)) = cube.chain
              /\ references(g) = DOMAIN g \ {tip_of(g)}

\* the graph of 3 + b + 5 was read: two operators applied to one band, one
\* after the other
C4_Witness ==
    /\ api_version = "1.0.0"
    /\ op.name = "flat_graph"
    /\ op.left.is_band
    /\ op.left.chain = 2
    /\ callback_of(op.left) = test_band_operation_process

\* every from_node in flat names a node of flat
closed(flat) == references(flat) \subseteq DOMAIN flat

\* C7: in a flat graph that was read, every from_node names a node of the
\* same flat graph; in a reducer's process_graph the from_node references
\* name nodes of the nested graph, none of the enclosing graph, and the
\* bound parameter is a from_argument.
C7_ClosedGraph ==
    op.name = "flat_graph" =>
        /\ closed(graph_read)
        /\ \A g \in callbacks_in(graph_read) :
              /\ closed(g)
              /\ references(g) \cap DOMAIN graph_read = {}
              /\ DOMAIN g \cap DOMAIN graph_read = {}
              /\ \A id \in DOMAIN g : g[id].process_id = array_element =>
                    g[id].arguments["data"] = [from_argument |-> "data"]
              /\ \E id \in DOMAIN g : arguments_with(g, id, "from_argument") # {}

\* a graph was read whose reducer callback combines two bands
C7_Witness ==
    /\ op.name = "flat_graph"
    /\ references(graph_read) # {}
    /\ \E g \in callbacks_in(graph_read) : Cardinality(references(g)) >= 2

band_expected(cube, i) ==
    LET flat == flat_graph(api_version, cube.root)
        data == tip_of(flat)
    IN  [id \in DOMAIN flat |->
            [process_id |-> flat[id].process_id, arguments |-> flat[id].arguments]]
        @@ (reducedimension1 :>
               [process_id |-> reduce_dimension,
                arguments |-> [data |-> [from_node |-> data],
                               reducer |-> [process_graph |->
                                   (arrayelement1 :>
                                       [process_id |-> array_element,
                                        arguments |-> [data |-> [from_argument |-> "data"],
                                                       index |-> [num |-> i]],
                                        result |-> TRUE])],
                               dimension |-> [str |-> "spectral_bands"]],
                result |-> TRUE])

\* C9 as stated: a reset sets every counter back, and without a reset the
\* numbering never restarts: two bands built one after the other get
\* different node ids.
C9_Original ==
    [][/\ op'.name = "reset_graphbuilder" => \A p \in AllPids : id_counter'[p] = 0
       /\ (/\ op.name = "band" /\ op.raised = "none"
           /\ op'.name = "band" /\ op'.raised = "none"
           /\ op.result # op'.result) =>
             DOMAIN callback_graph(op.result) \cap DOMAIN callback_graph(op'.result) = {}]_vars

\* C9 (amended): reset_graphbuilder() sets every counter of the 0.4.0
\* builder back, so that the first band built next on a cube gets the first
\* ids again and its graph is the graph of a first build; any other step
\* leaves every counter as it is or raises it. The 1.0.0 graph is numbered
\* from 1 whenever it is read, reset or not.
C9_ResetRestarts ==
    [][/\ op'.name = "reset_graphbuilder" => \A p \in AllPids : id_counter'[p] = 0
       /\ op'.name # "reset_graphbuilder" =>
             \A p \in AllPids : id_counter'[p] >= id_counter[p]
       /\ (/\ op'.name = "band"
           /\ op'.raised = "none"
           /\ \/ api_version = "1.0.0"
              \/ id_counter[reduce_dimension] = 0 /\ id_counter[array_element] = 0
           /\ reducedimension1 \notin DOMAIN flat_graph(api_version, op'.left.root)) =>
             flat_graph(api_version, op'.result.root) = band_expected(op'.left, op'.s)]_vars

\* a band was built after a reset on a cube that has a band from before it
C9_Witness ==
    /\ api_version = "0.4.0"
    /\ op.name = "band"
    /\ op.raised = "none"
    /\ id_counter[reduce_dimension] = 1
    /\ id_counter[load_collection] = 0
    /\ \E cube \in cubes : cube.is_band /\ cube # op.result /\ cube.chain = 0

\* C5: an operator on two band expressions of different source collections
\* raises the band math error and yields no expression, in both versions.
C5_CrossCollectionRaises ==
    (op.name = "band_op_band" /\ op.left.collection # op.right.collection) =>
        (op.raised = "BandMathException" /\ op.result = NoCube)

load_collection_ids(flat) == {id \in DOMAIN flat : flat[id].process_id = load_collection}

\* C6: the flat graph of two merged cubes holds every load_collection node
\* that the operands derive from once, also when both derive from it.
C6_CommonAncestorOnce ==
    (op.name = "merge" /\ op.raised = "none") =>
        Cardinality(load_collection_ids(flat_graph(api_version, op.result.root)))
            = Cardinality(op.result.sources)

\* an operation that raised returns nothing: no cube and no graph
raised_returns_nothing ==
    op.raised # "none" => (op.result = NoCube /\ graph_read = NoGraph)

\* no cube of the 0.4.0 builder holds an id that is bound to two nodes
no_partial_graph ==
    api_version = "0.4.0" => \A cube \in cubes : ~collision(cube.root)

\* the conditions under which an operation has to raise, each with its error
error_expected ==
    IF op.name = "flat_graph" /\ op.left = NoCube THEN "GraphConstructionError"
    ELSE IF op.name = "convert_callable" /\ op.s = 0 THEN "ConfigurationError"
    ELSE IF op.name = "band_op_band" /\ op.left.collection # op.right.collection
         THEN "BandMathException"
    ELSE IF /\ op.name = "merge"
            /\ api_version = "0.4.0"
            /\ operands_collide({op.left.root, op.right.root})
         THEN "GraphConstructionError"
    ELSE "none"

\* the errors as they are raised: as C11 states, but for band math on two
\* collections on 0.4.0
errors_but_band_math_040 ==
    /\ raised_returns_nothing
    /\ no_partial_graph
    /\ (error_expected # "none" /\ ~(api_version = "0.4.0" /\ op.name = "band_op_band"))
          => op.raised = error_expected

\* C11: flat_graph() of a builder without a result node or without nodes
\* raises a graph construction error and returns no graph; a missing result
\* node, an id collision on merge, operands of two collections and a
\* callable without usable parameters are each raised by the operation that
\* meets them, which returns nothing.
C11_ErrorsSynchronous ==
    /\ raised_returns_nothing
    /\ no_partial_graph
    /\ error_expected # "none" => op.raised = error_expected

(***************************************************************************)
(* PrivateJsonFile and RefreshTokenStore: a JSON file that only its owner  *)
(* may read. A mode is the number of its permission bits (0o600 = 384).    *)
(* The content is a mapping from <<issuer, client_id>> style key paths to  *)
(* values.                                                                 *)
(***************************************************************************)
mode_600 == 384   \* 0o600
mask_077 == 63    \* 0o077
mask_777 == 511   \* 0o777
mode_666 == 438   \* 0o666, the mode that open("w") asks for

\* umask 022, 027, 002, 077
Umasks == {18, 23, 2, 63}

\* 0o600, 0o610, 0o601, 0o640, 0o604, 0o644, 0o666
Modes == {384, 392, 385, 416, 388, 420, 438}

Stores == {"PrivateJsonFile", "RefreshTokenStore"}
KeyPaths == {<<"foo", "bar">>, <<"foo", "baz">>}
Values == {[num |-> 42], [str |-> "imd6$3cr3t"]}
None == [null |-> TRUE]

RECURSIVE BitAnd(_, _)
BitAnd(a, b) ==
    IF a = 0 \/ b = 0 THEN 0
    ELSE (a % 2) * (b % 2) + 2 * BitAnd(a \div 2, b \div 2)

\* path.open("w"): a new file gets the mode that the umask leaves of 0o666,
\* an existing file keeps its mode
opened_for_writing(file, data) ==
    [umask |-> file.umask,
     exists |-> TRUE,
     mode |-> IF file.exists THEN file.mode
              ELSE BitAnd(mode_666, mask_777 - file.umask),
     data |-> data]

\* the file is readable, writable or executable by group or others
readable_by_others(file) == BitAnd(file.mode, mask_077) > 0

\* load(): the content of the file, {} if there is no file, PermissionError
\* if the file is not private
load(file) ==
    IF ~file.exists THEN [raised |-> "none", data |-> <<>>]
    ELSE IF readable_by_others(file) THEN [raised |-> "PermissionError", data |-> <<>>]
    ELSE [raised |-> "none", data |-> file.data]

write_keeps_mode(file, data) == opened_for_writing(file, data)

\* the file written and made private: chmod 0o600
write(file, data) == [opened_for_writing(file, data) EXCEPT !.mode = mode_600]

deep_get(data, keys) == IF keys \in DOMAIN data THEN data[keys] ELSE None

deep_set(data, keys, value) ==
    [k \in DOMAIN data \cup {keys} |-> IF k = keys THEN value ELSE data[k]]

\* private.get(*keys)
get(file, keys) ==
    LET loaded == load(file)
    IN  IF loaded.raised # "none"
        THEN [raised |-> loaded.raised, value |-> None, file |-> file]
        ELSE [raised |-> "none", value |-> deep_get(loaded.data, keys), file |-> file]

\* private.set(*keys, value=value)
set(file, keys, value) ==
    LET loaded == load(file)
    IN  IF loaded.raised # "none"
        THEN [raised |-> loaded.raised, value |-> None, file |-> file]
        ELSE [raised |-> "none", value |-> None,
              file |-> write(file, deep_set(loaded.data, keys, value))]

Stored(name, store, keys, value, r) ==
    [name |-> name, store |-> store, keys |-> keys, value |-> value,
     raised |-> r.raised, returned |-> r.value]

InitPrivate ==
    /\ private \in {[NoFile EXCEPT !.umask = u] : u \in Umasks}
    /\ api_version = "1.0.0"
    /\ cubes = {}
    /\ graph_read = NoGraph
    /\ id_counter = EmptyCounter
    /\ issued = {}
    /\ sess = NoSess
    /\ op = [name |-> "init"]

\* private.get("foo", "bar") / r.get_refresh_token("foo", "bar")
Get(store, keys) ==
    /\ LET r == get(private, keys)
       IN  /\ private' = r.file
           /\ op' = Stored("get", store, keys, None, r)
    /\ UNCHANGED <<id_counter, issued, sess, api_version, cubes, graph_read>>

\* private.set("foo", "bar", value=42) / r.set_refresh_token("foo", "bar", token)
Set(store, keys, value) ==
    /\ LET r == set(private, keys, value)
       IN  /\ private' = r.file
           /\ op' = Stored("set", store, keys, value, r)
    /\ UNCHANGED <<id_counter, issued, sess, api_version, cubes, graph_read>>

\* with path.open("w") as f: json.dump({}, f)
Dump ==
    /\ private' = opened_for_writing(private, <<>>)
    /\ op' = [name |-> "dump"]
    /\ UNCHANGED <<id_counter, issued, sess, api_version, cubes, graph_read>>

\* the owner changes the mode of the file
Chmod(mode) ==
    /\ private.exists
    /\ private' = [private EXCEPT !.mode = mode]
    /\ op' = [name |-> "chmod"]
    /\ UNCHANGED <<id_counter, issued, sess, api_version, cubes, graph_read>>

\* a new tmp_path: no file
Unlink ==
    /\ private.exists
    /\ private' = [NoFile EXCEPT !.umask = private.umask]
    /\ op' = [name |-> "unlink"]
    /\ UNCHANGED <<id_counter, issued, sess, api_version, cubes, graph_read>>

NextPrivate ==
    \/ \E store \in Stores, keys \in KeyPaths : Get(store, keys)
    \/ \E store \in Stores, keys \in KeyPaths, value \in Values : Set(store, keys, value)
    \/ Dump
    \/ \E mode \in Modes : Chmod(mode)
    \/ Unlink

SpecPrivate == InitPrivate /\ [][NextPrivate]_vars

\* C12: a set that returns leaves the file with mode exactly 0o600 and the
\* value in it, and a set on a file that is missing or private returns; a
\* get without a file returns None and creates no file; get and set on a
\* file with a group or other permission bit raise PermissionError and leave
\* the file as it is, returning nothing.
C12_PrivateFile ==
    [][/\ (op'.name = "set" /\ op'.raised = "none") =>
             /\ private'.exists
             /\ BitAnd(private'.mode, mask_777) = mode_600
             /\ deep_get(private'.data, op'.keys) = op'.value
       /\ (op'.name = "set" /\ (~private.exists \/ private.mode = mode_600)) =>
             op'.raised = "none"
       /\ (op'.name = "get" /\ ~private.exists) =>
             /\ op'.raised = "none"
             /\ op'.returned = None
             /\ ~private'.exists
       /\ (/\ op'.name \in {"get", "set"}
           /\ private.exists
           /\ \E bit \in {1, 2, 4, 8, 16, 32} : BitAnd(private.mode, bit) = bit) =>
             /\ op'.raised = "PermissionError"
             /\ op'.returned = None
             /\ private' = private]_vars

\* a token was set, the file was then opened up to the group, and the next
\* set on the refresh token store raised
C12_Witness ==
    /\ op.name = "set"
    /\ op.store = "RefreshTokenStore"
    /\ op.raised = "PermissionError"
    /\ private.exists
    /\ private.mode = 416
    /\ DOMAIN private.data # {}

====
